---------------------------- MODULE Spec2Model ----------------------------
(***************************************************************************)
(* Cascade Freight chatbot prototype (src/backend/app/main.py).            *)
(*                                                                         *)
(* Text is modelled as sequences of one-character strings, so that         *)
(* str.lower, str.upper, str.strip and the substring test `x in msg` are   *)
(* computed as Python computes them.  Replies are sequences of text        *)
(* segments: concatenation is \o, and the literal pieces of the source's   *)
(* string literals are the segments.  The non-ASCII bullet, arrow and      *)
(* apostrophe of the source's literals are written "*", "->" and "'".      *)
(***************************************************************************)
EXTENDS Naturals, Sequences, FiniteSets, Bags, TLC

VARIABLES
  now,             \* the wall clock read by datetime.utcnow(), in ticks
  OLLAMA_ENABLED,  \* process-wide feature flag, fixed at import time
  CHAT_LOG,        \* the in-memory audit log
  inflight,        \* bag of requests whose dependency has resolved and whose
                   \* endpoint coroutine has not run yet
  response,        \* the HTTP response produced last
  served,          \* number of /api/chat requests answered with 200 so far
  issued,          \* tokens handed out by /login so far
  cookie,          \* the browser's access_token cookie
  logouts,         \* number of /logout calls so far
  probe,           \* direct call of the chatbot functions: input and results
  running          \* the frame of the chat_api coroutine on the event loop

vars == <<now, OLLAMA_ENABLED, CHAT_LOG, inflight, response, served,
          issued, cookie, logouts, probe, running>>

---------------------------------------------------------------------------
\* Bounds of the model.

\* Clock ticks per second (the clock's resolution below one second).
Resolution == 2
\* The clock advances tick by tick up to MaxTime ticks past an hour boundary.
MaxTime == 1
\* Largest number of audit-log entries in the chat specification.
MaxLog == 2
\* Largest number of audit-log entries in the audit-view specification.
MaxLogs == 27
\* Largest number of requests in flight at once.
MaxInflight == 2
\* Largest number of fragments a probed message is built from.
MaxFragments == 2
\* Largest number of token lifetimes that pass.
MaxHours == 2
\* Largest number of tokens handed out.
MaxIssued == 1
\* Largest number of /logout calls.
MaxLogouts == 2

---------------------------------------------------------------------------
\* Text primitives (Python str methods on ASCII text).

UPPER ==
  <<"A","B","C","D","E","F","G","H","I","J","K","L","M",
    "N","O","P","Q","R","S","T","U","V","W","X","Y","Z">>
LOWER ==
  <<"a","b","c","d","e","f","g","h","i","j","k","l","m",
    "n","o","p","q","r","s","t","u","v","w","x","y","z">>
WHITESPACE == {" ", "\t", "\n", "\r", "\f"}

MapChar(from, to, c) ==
  IF \E i \in 1..Len(from) : from[i] = c
    THEN to[CHOOSE i \in 1..Len(from) : from[i] = c]
    ELSE c

\* str.lower()
lower(s) == [i \in 1..Len(s) |-> MapChar(UPPER, LOWER, s[i])]
\* str.upper()
upper(s) == [i \in 1..Len(s) |-> MapChar(LOWER, UPPER, s[i])]

strip_spaces(s) ==
  LET keep == {i \in 1..Len(s) : s[i] # " "}
      first == CHOOSE i \in keep : \A j \in keep : i <= j
      last == CHOOSE i \in keep : \A j \in keep : j <= i
  IN IF keep = {} THEN <<>> ELSE SubSeq(s, first, last)

\* str.strip(): drop leading and trailing whitespace
strip(s) ==
  LET keep == {i \in 1..Len(s) : s[i] \notin WHITESPACE}
      first == CHOOSE i \in keep : \A j \in keep : i <= j
      last == CHOOSE i \in keep : \A j \in keep : j <= i
  IN IF keep = {} THEN <<>> ELSE SubSeq(s, first, last)

\* Python's `x in s` on strings: x occurs in s as a contiguous substring
In(x, s) ==
  \E i \in 0..Len(s) :
    /\ i + Len(x) <= Len(s)
    /\ SubSeq(s, i + 1, i + Len(x)) = x

\* any(x in msg for x in keywords)
AnyIn(keywords, msg) == \E k \in 1..Len(keywords) : In(keywords[k], msg)

\* sep.join(items), as text segments
RECURSIVE join(_, _)
join(sep, items) ==
  IF Len(items) = 0 THEN <<>>
  ELSE IF Len(items) = 1 THEN <<items[1]>>
  ELSE <<items[1], sep>> \o join(sep, Tail(items))

---------------------------------------------------------------------------
\* Static data.

USERS_DB ==
  [ alext    |-> [username |-> "alext", full_name |-> "Alex Torres",
                  role |-> "dispatcher", password |-> "supervisor123"],
    jeremyc  |-> [username |-> "jeremyc", full_name |-> "Jeremy Clements",
                  role |-> "compliance_officer", password |-> "compliance123"],
    ermiyash |-> [username |-> "ermiyash", full_name |-> "Ermiyas Hailemichael",
                  role |-> "warehouse_manager", password |-> "manager123"],
    davidd   |-> [username |-> "davidd", full_name |-> "David Davis",
                  role |-> "admin", password |-> "ceo123"] ]

\* SHIPMENTS, in the dict's insertion order (the order its keys are scanned)
SHIPMENTS ==
  << [id |-> <<"C","F","S","-","1","0","0","1">>, status |-> "In transit",
      eta |-> "Today 4:30 PM", driver |-> "Driver-07",
      route |-> "Seattle -> Spokane", exceptions |-> <<>>],
     [id |-> <<"C","F","S","-","1","0","0","2">>, status |-> "Delayed",
      eta |-> "Tomorrow 9:00 AM", driver |-> "Driver-04",
      route |-> "Everett -> Portland",
      exceptions |-> <<"Weather delay on I-5">>],
     [id |-> <<"C","F","S","-","1","0","0","3">>, status |-> "Delivered",
      eta |-> "Delivered 08:15 AM", driver |-> "Driver-02",
      route |-> "Kent -> Yakima", exceptions |-> <<>>] >>

POLICIES ==
  [ hazmat |-> <<"Hazmat Safety Policy: Drivers must complete annual hazmat training, carry updated SDS sheets, and perform a 360 degree walk-around inspection before departure. Any leak or odor must be reported immediately to dispatch.">>,
    ppe |-> <<"PPE Policy: High-visibility vest, safety shoes, and gloves are required in all warehouse zones. Hearing protection is required in loading bays 2-5.">>,
    hours_of_service |-> <<"Hours-of-Service Policy: Maximum 11 hours driving after 10 consecutive hours off duty. Dispatch must be notified before any potential violation.">> ]

CONTACTS ==
  [ dispatch |-> "Dispatch Desk: dispatch@cascadefreight.local - ext. 221",
    hr |-> "HR: hr@cascadefreight.local - ext. 205",
    it |-> "IT Helpdesk: it-help@cascadefreight.local - ext. 250" ]

---------------------------------------------------------------------------
\* Topic classifier.

SHIPMENT_KEYWORDS ==
  << <<"s","h","i","p","m","e","n","t">>,
     <<"t","r","a","c","k">>,
     <<"e","t","a">>,
     <<"d","e","l","i","v","e","r","y">>,
     <<"#","c","f","s","-">> >>
DISPATCH_KEYWORDS ==
  << <<"d","r","i","v","e","r">>,
     <<"a","s","s","i","g","n","m","e","n","t">>,
     <<"d","i","s","p","a","t","c","h">> >>
SUPPORT_KEYWORDS ==
  << <<"p","o","l","i","c","y">>,
     <<"v","a","c","a","t","i","o","n">>,
     <<"s","i","c","k"," ","l","e","a","v","e">>,
     <<"s","a","f","e","t","y">>,
     <<"h","a","z","m","a","t">>,
     <<"p","p","e">> >>
COMPLIANCE_KEYWORDS ==
  << <<"a","u","d","i","t">>,
     <<"l","o","g">>,
     <<"c","o","m","p","l","i","a","n","c","e">>,
     <<"c","h","e","c","k","l","i","s","t">> >>
CONTACT_KEYWORDS ==
  << <<"c","o","n","t","a","c","t">>,
     <<"h","r">>,
     <<"i","t">>,
     <<"h","e","l","p","d","e","s","k">>,
     <<"p","h","o","n","e">>,
     <<"e","m","a","i","l">> >>

detect_topic(message) ==
  LET msg == lower(message) IN
  IF AnyIn(SHIPMENT_KEYWORDS, msg) THEN "shipment_tracking"
  ELSE IF AnyIn(DISPATCH_KEYWORDS, msg) THEN "dispatch_coordination"
  ELSE IF AnyIn(SUPPORT_KEYWORDS, msg) THEN "employee_support"
  ELSE IF AnyIn(COMPLIANCE_KEYWORDS, msg) THEN "compliance_audit"
  ELSE IF AnyIn(CONTACT_KEYWORDS, msg) THEN "contact_directory"
  ELSE "general"

---------------------------------------------------------------------------
\* Rule-based response generators.

SHIPMENT_USAGE_HINT ==
  <<"Please specify a shipment ID, for example: \"Track shipment CFS-1001\".">>

\* the shipment of the first id, in SHIPMENTS order, that occurs in msg
FirstShipmentIn(msg) ==
  LET hits == {k \in 1..Len(SHIPMENTS) : In(SHIPMENTS[k].id, msg)}
  IN SHIPMENTS[CHOOSE k \in hits : \A j \in hits : k <= j]

handle_shipment_query(message, role) ==
  LET msg == upper(message)
      found == \E k \in 1..Len(SHIPMENTS) : In(SHIPMENTS[k].id, msg)
      shipment == FirstShipmentIn(msg)
      base_info ==
        <<"Shipment ">> \o shipment.id
          \o <<"\n * Status: ", shipment.status,
               "\n * ETA: ", shipment.eta,
               "\n * Route: ", shipment.route>>
      exceptions_info ==
        IF Len(shipment.exceptions) > 0
          THEN <<"\n * Exception alerts: ">> \o join("; ", shipment.exceptions)
          ELSE <<>>
      driver_info == <<"\n * Current driver: ", shipment.driver>>
  IN
  IF ~found THEN SHIPMENT_USAGE_HINT
  ELSE IF role = "dispatcher" THEN
    base_info \o driver_info \o exceptions_info
      \o <<"\n\nAll details are logged for audit purposes.">>
  ELSE IF role \in {"warehouse_manager", "admin"} THEN
    base_info \o driver_info \o exceptions_info
      \o <<"\n\nYou can use the internal TMS to reassign this shipment if needed.">>
  ELSE IF role = "driver" THEN
    base_info
      \o <<"\n\nAs a driver, you can only view your own assigned shipments. Contact dispatch if something looks incorrect.">>
  ELSE
    base_info
      \o <<"\n\nYour role has read-only access to high-level shipment status.">>

DISPATCH_RESTRICTED ==
  <<"Dispatch coordination features are restricted. Only Dispatch and Management can reassign drivers or shipments.">>
DISPATCH_CAPABILITY ==
  <<"Dispatch coordination prototype:\n * You can ask things like: \"Which driver has shipment CFS-1002?\"\n * In the full system, this would write an assignment change to the audit log and update the TMS.\n\nFor now, use shipment tracking, policy queries, and contact lookup to see end-to-end chatbot behavior.">>

handle_dispatch_query_any_staff(message, role) ==
  IF role # "dispatcher" /\ role \notin {"warehouse_manager", "admin", "driver"}
    THEN DISPATCH_RESTRICTED
    ELSE DISPATCH_CAPABILITY

handle_dispatch_query(message, role) ==
  IF role # "dispatcher" /\ role \notin {"warehouse_manager", "admin"}
    THEN DISPATCH_RESTRICTED
    ELSE DISPATCH_CAPABILITY

POLICY_MENU ==
  <<"I can help with these policies right now:\n * Hazmat safety\n * PPE requirements\n * Hours-of-service rules\n\nTry asking \"What is our hazmat safety policy?\"">>

handle_policy_query(message) ==
  LET msg == lower(message) IN
  IF In(<<"h","a","z","m","a","t">>, msg) THEN POLICIES.hazmat
  ELSE IF \/ In(<<"p","p","e">>, msg)
          \/ In(<<"s","a","f","e","t","y"," ","g","e","a","r">>, msg)
    THEN POLICIES.ppe
  ELSE IF \/ In(<<"h","o","u","r","s">>, msg)
          \/ In(<<"h","o","s">>, msg)
          \/ In(<<"s","e","r","v","i","c","e">>, msg)
    THEN POLICIES.hours_of_service
  ELSE POLICY_MENU

handle_contact_query(message) ==
  LET msg == lower(message) IN
  IF In(<<"d","i","s","p","a","t","c","h">>, msg) THEN <<CONTACTS.dispatch>>
  ELSE IF In(<<"h","r">>, msg) THEN <<CONTACTS.hr>>
  ELSE IF \/ In(<<"i","t">>, msg)
          \/ In(<<"h","e","l","p","d","e","s","k">>, msg)
    THEN <<CONTACTS.it>>
  ELSE <<"Here are some internal contacts:\n",
         " * ", CONTACTS.dispatch, "\n",
         " * ", CONTACTS.hr, "\n",
         " * ", CONTACTS.it, "\n",
         "You can ask for a specific department, for example \"Contact HR\" or \"IT helpdesk phone\".">>

COMPLIANCE_RESTRICTED ==
  <<"Compliance and audit checklists are restricted to Compliance Officers and Admins.\n\nIf you believe you need access, please contact your supervisor.">>
COMPLIANCE_GUIDANCE ==
  <<"Compliance & Audit prototype:\n * I can summarize what an internal audit checklist might cover.\n * In production, each completed checklist would be logged with timestamp, user, and findings.\n\nExample checklist items:\n  1. Verify that all hazmat shipments have signed manifests.\n  2. Confirm that driver HOS logs are complete for the audit period.\n  3. Review random sample of delivery PODs for required signatures.">>

handle_compliance_query(role) ==
  IF role \notin {"compliance_officer", "admin"}
    THEN COMPLIANCE_RESTRICTED
    ELSE COMPLIANCE_GUIDANCE

handle_general_query(message, role) ==
  <<"I'm Cascade Freight's internal assistant prototype. Right now I can help you with:\n * Tracking shipments (e.g., \"Track shipment CFS-1001\")\n * Asking about safety or HR policies (e.g., \"What is the hazmat safety policy?\")\n * Looking up internal contacts (e.g., \"Contact HR\")\n * Compliance checklist guidance (for Compliance / Admin roles)\n\n",
    "Your current role is: ", IF role = "" THEN "unknown" ELSE role, ".">>

\* The fallback branch of chat_api: the generator chosen by the topic.
RuleBasedReply(topic, message, role) ==
  IF topic = "shipment_tracking" THEN handle_shipment_query(message, role)
  ELSE IF topic = "dispatch_coordination" THEN handle_dispatch_query(message, role)
  ELSE IF topic = "employee_support" THEN handle_policy_query(message)
  ELSE IF topic = "contact_directory" THEN handle_contact_query(message)
  ELSE IF topic = "compliance_audit" THEN handle_compliance_query(role)
  ELSE handle_general_query(message, role)

---------------------------------------------------------------------------
\* Direct calls of the classifier and the generators on drawn inputs.

\* Role values of the data model (spec section 3); the directory holds four.
ROLES ==
  {"dispatcher", "compliance_officer", "warehouse_manager", "admin",
   "driver", "unknown"}

Fragments ==
  << <<"T","r","a","c","k"," ","s","h","i","p","m","e","n","t"," ">>,
     <<"C","F","S","-","1","0","0","2">>,
     <<"c","f","s","-","1","0","0","1">>,
     <<"C","F","S","-","9","9","9","9">>,
     <<"#","C","F","S","-">>,
     <<"E","T","A">>,
     <<"d","r","i","v","e","r"," ">>,
     <<"D","i","s","p","a","t","c","h">>,
     <<"p","o","l","i","c","y">>,
     <<"h","a","z","m","a","t">>,
     <<"a","u","d","i","t">>,
     <<"l","o","g">>,
     <<"C","o","n","t","a","c","t"," ","H","R">>,
     <<"h","e","l","l","o">>,
     <<" ">>,
     <<"i","t">> >>

RECURSIVE Concat(_)
Concat(picks) ==
  IF Len(picks) = 0 THEN <<>> ELSE Fragments[Head(picks)] \o Concat(Tail(picks))

\* every message made of at most MaxFragments fragments
ProbeMessages ==
  {Concat(p) : p \in UNION {[1..n -> 1..Len(Fragments)] : n \in 0..MaxFragments}}

NoProbe == [pc |-> "idle", message |-> <<>>, role |-> "", topic |-> "", reply |-> <<>>]

ProbeInit ==
  \E m \in ProbeMessages, r \in ROLES :
    probe = [pc |-> "drawn", message |-> m, role |-> r, topic |-> "", reply |-> <<>>]

ProbeClassify ==
  /\ probe.pc = "drawn"
  /\ probe' = [probe EXCEPT !.pc = "classified", !.topic = detect_topic(probe.message)]
  /\ UNCHANGED <<now, OLLAMA_ENABLED, CHAT_LOG, inflight, response, served,
                 issued, cookie, logouts, running>>

ProbeAnswer ==
  /\ probe.pc = "classified"
  /\ probe' = [probe EXCEPT !.pc = "answered",
                            !.reply = RuleBasedReply(probe.topic, probe.message, probe.role)]
  /\ UNCHANGED <<now, OLLAMA_ENABLED, CHAT_LOG, inflight, response, served,
                 issued, cookie, logouts, running>>

---------------------------------------------------------------------------
\* State after construction.

NoToken == [sub |-> "", role |-> "", exp |-> 0, key |-> "none"]
\* the delegate was not called
NoOutcome == [kind |-> "not_called", content |-> <<>>]

\* A response: the route, the HTTP status, the resolved caller ("" when the
\* session was refused), what the delegate call came to while the response
\* was made, and the body.
HttpResponse(endpoint, status, caller, outcome, body) ==
  [endpoint |-> endpoint, status |-> status, caller |-> caller,
   outcome |-> outcome, body |-> body]

NoResponse == HttpResponse("none", 0, "", NoOutcome, [detail |-> ""])

\* ai_reply: Optional[str]
None == [set |-> FALSE, value |-> <<>>]

Some(value) == [set |-> TRUE, value |-> value]

\* The frame of chat_api: where the coroutine stands, its locals, how often
\* it has called generate_ai_reply and what the last call came to.
Frame(pc, request) ==
  [pc |-> pc, request |-> request, message |-> <<>>, topic |-> "",
   ai_reply |-> None, reply |-> <<>>, timestamp |-> <<>>,
   attempts |-> 0, outcome |-> NoOutcome]

\* no endpoint coroutine is on the event loop
Idle == Frame("idle", [endpoint |-> "none", user |-> "", message |-> <<>>])

ServerInit ==
  /\ running = Idle
  /\ now = 0
  /\ OLLAMA_ENABLED \in BOOLEAN
  /\ CHAT_LOG = <<>>
  /\ inflight = EmptyBag
  /\ response = NoResponse
  /\ served = 0
  /\ issued = {}
  /\ cookie = NoToken
  /\ logouts = 0

Init == ServerInit /\ probe = NoProbe

---------------------------------------------------------------------------
\* Time.  `now` counts clock ticks, Resolution ticks to the second.

Second(t) == t \div Resolution

\* datetime.isoformat(): the text "YYYY-MM-DDTHH:MM:SS", followed by
\* ".ffffff" only when the microsecond part is not zero.  The text is kept as
\* its fields; fixed-width fields make text order the order of the fields.
isoformat(t) ==
  IF t % Resolution = 0 THEN <<Second(t)>> ELSE <<Second(t), t % Resolution>>

\* order of two isoformat texts as strings (a proper prefix sorts first)
RECURSIVE TextLeq(_, _)
TextLeq(a, b) ==
  IF Len(a) = 0 THEN TRUE
  ELSE IF Len(b) = 0 THEN FALSE
  ELSE IF a[1] # b[1] THEN a[1] < b[1]
  ELSE TextLeq(Tail(a), Tail(b))

---------------------------------------------------------------------------
\* Session tokens.

SECRET_KEY == "super-secret-demo-key-for-cascade-freight-only"
ACCESS_TOKEN_EXPIRE_MINUTES == 60

\* ticks in ACCESS_TOKEN_EXPIRE_MINUTES minutes
TokenLifetime == ACCESS_TOKEN_EXPIRE_MINUTES * 60 * Resolution

\* jwt.encode of {sub, role, exp}: the exp claim is the whole second of
\* utcnow() + timedelta(minutes=ACCESS_TOKEN_EXPIRE_MINUTES)
create_access_token(data, t) ==
  [sub |-> data.sub, role |-> data.role,
   exp |-> Second(t + TokenLifetime), key |-> SECRET_KEY]

\* jwt.decode without the expiry check
jwt_decode_no_exp(token, t) ==
  IF token.key # SECRET_KEY THEN [ok |-> FALSE]
  ELSE [ok |-> TRUE, sub |-> token.sub, role |-> token.role]

\* jwt.decode(token, SECRET_KEY, algorithms=[ALGORITHM]): JWTError on a bad
\* signature, and on an exp claim below the current whole second
jwt_decode(token, t) ==
  IF token.key # SECRET_KEY THEN [ok |-> FALSE]
  ELSE IF token.exp < Second(t) THEN [ok |-> FALSE]
  ELSE [ok |-> TRUE, sub |-> token.sub, role |-> token.role]

Unauthorized(detail) == [ok |-> FALSE, status |-> 401, detail |-> detail]

get_current_user_from_request(token, t) ==
  IF token = NoToken THEN Unauthorized("Not authenticated")
  ELSE LET payload == jwt_decode(token, t) IN
    IF ~payload.ok THEN Unauthorized("Invalid token")
    ELSE IF payload.sub = "" THEN Unauthorized("Invalid token")
    ELSE IF payload.sub \notin DOMAIN USERS_DB THEN Unauthorized("User not found")
    ELSE [ok |-> TRUE, user |-> USERS_DB[payload.sub]]

\* a token signed with another key
ForgedToken == [sub |-> "davidd", role |-> "admin", exp |-> Second(TokenLifetime), key |-> "other"]

\* the token /login hands to user u at tick t
TokenOf(u, t) == create_access_token([sub |-> u, role |-> USERS_DB[u].role], t)

---------------------------------------------------------------------------
\* The clock.

\* the clock advances by one tick (at most MaxTime ticks past the hour)
Tick ==
  /\ now % TokenLifetime < MaxTime
  /\ now' = now + 1
  /\ UNCHANGED <<OLLAMA_ENABLED, CHAT_LOG, inflight, response, served,
                 issued, cookie, logouts, probe, running>>

---------------------------------------------------------------------------
\* Requests.  A protected route first resolves its dependency
\* get_current_user_from_request (in the thread pool); the endpoint coroutine
\* runs later on the event loop, and runs to its end without suspending.

Request(endpoint, user, message) ==
  [endpoint |-> endpoint, user |-> user, message |-> message]

Depends(endpoint, token, message, cap) ==
  LET res == get_current_user_from_request(token, now) IN
  IF ~res.ok
    THEN /\ response' = HttpResponse(endpoint, res.status, "", NoOutcome,
                                      [detail |-> res.detail])
         /\ UNCHANGED <<now, OLLAMA_ENABLED, CHAT_LOG, inflight, served,
                        issued, cookie, logouts, probe, running>>
    ELSE /\ BagCardinality(inflight) < cap
         /\ inflight' = inflight (+) SetToBag({Request(endpoint, res.user.username, message)})
         /\ UNCHANGED <<now, OLLAMA_ENABLED, CHAT_LOG, response, served,
                        issued, cookie, logouts, probe, running>>

Pending(endpoint) == {r \in BagToSet(inflight) : r.endpoint = endpoint}

Take(r) == inflight (-) SetToBag({r})

---------------------------------------------------------------------------
\* The AI delegate.

\* What the call of the Ollama endpoint can come to.  content is the reply
\* field of the response body; "missing" stands for an absent field.
DelegateOutcomes ==
  { [kind |-> "transport_error", content |-> <<>>],  \* requests.post raises
    [kind |-> "http_error", content |-> <<>>],       \* raise_for_status raises
    [kind |-> "no_content", content |-> <<>>],       \* no message.content
    [kind |-> "body", content |-> <<>>],
    [kind |-> "body", content |-> <<" ">>],
    [kind |-> "body", content |-> <<" ","o","k","\n">>] }

generate_ai_reply_unchecked(outcome) ==
  IF outcome.kind # "body" THEN [raised |-> TRUE]
  ELSE [raised |-> FALSE, value |-> strip(outcome.content)]

\* generate_ai_reply: the stripped content, or an exception
generate_ai_reply(outcome) ==
  IF outcome.kind # "body" THEN [raised |-> TRUE]
  ELSE IF outcome.content = <<>> THEN [raised |-> TRUE]
  ELSE [raised |-> FALSE, value |-> strip(outcome.content)]

---------------------------------------------------------------------------
\* POST /api/chat

LogAppendFront(log, entry) == <<entry>> \o log

LogAppendUnlessAi(log, entry) == IF entry.used_ai THEN log ELSE Append(log, entry)

\* CHAT_LOG.append(entry)
LogAppend(log, entry) == Append(log, entry)

chat_api(r, outcome, maxlog) ==
  LET current_user == USERS_DB[r.user]
      user_role == current_user.role
      message == strip(r.message)
      topic == detect_topic(message)
      attempt == IF OLLAMA_ENABLED THEN generate_ai_reply(outcome) ELSE [raised |-> TRUE]
      used_ai == OLLAMA_ENABLED /\ ~attempt.raised
      reply == IF used_ai THEN attempt.value ELSE RuleBasedReply(topic, message, user_role)
      timestamp == isoformat(now)
  IN
  /\ r \in Pending("/api/chat")
  /\ inflight' = Take(r)
  /\ IF message = <<>>
       THEN /\ response' = HttpResponse("/api/chat", 400, r.user, NoOutcome,
                                         [detail |-> "Message cannot be empty"])
            /\ UNCHANGED <<CHAT_LOG, served>>
       ELSE /\ Len(CHAT_LOG) < maxlog
            /\ CHAT_LOG' = LogAppend(CHAT_LOG,
                 [timestamp |-> timestamp, username |-> current_user.username,
                  role |-> user_role, message |-> message, reply |-> reply,
                  topic |-> topic, used_ai |-> used_ai])
            /\ served' = served + 1
            /\ response' = HttpResponse("/api/chat", 200, r.user,
                              IF OLLAMA_ENABLED THEN outcome ELSE NoOutcome,
                              [reply |-> reply, topic |-> topic,
                               role |-> user_role, timestamp |-> timestamp])
  /\ UNCHANGED <<now, OLLAMA_ENABLED, issued, cookie, logouts, probe, running>>

---------------------------------------------------------------------------
\* GET /admin/logs

\* the 25 of CHAT_LOG[-25:]
LogsWindow == 25

\* CHAT_LOG[:25]
first_entries(log, n) == SubSeq(log, 1, IF Len(log) < n THEN Len(log) ELSE n)

\* CHAT_LOG[-n:]
latest_entries(log, n) ==
  SubSeq(log, IF Len(log) > n THEN Len(log) - n + 1 ELSE 1, Len(log))

Forbidden(endpoint, caller) ==
  HttpResponse(endpoint, 403, caller, NoOutcome, [detail |-> "Admins only"])

IsStaff(current_user) == current_user.role # "driver"

\* the role test of view_logs
IsAdmin(current_user) == current_user.role = "admin"

view_logs(r) ==
  LET current_user == USERS_DB[r.user]
      latest == latest_entries(CHAT_LOG, LogsWindow)
  IN
  /\ r \in Pending("/admin/logs")
  /\ inflight' = Take(r)
  /\ response' =
       IF ~IsAdmin(current_user) THEN Forbidden("/admin/logs", r.user)
       ELSE HttpResponse("/admin/logs", 200, r.user, NoOutcome,
                         [count |-> Len(latest), entries |-> latest])
  /\ UNCHANGED <<now, OLLAMA_ENABLED, CHAT_LOG, served, issued, cookie,
                 logouts, probe, running>>

---------------------------------------------------------------------------
\* The chat service: chat requests of a signed-in user and of an anonymous
\* caller, several in flight at once, the delegate, the clock.

ChatTokens == {NoToken, TokenOf("alext", 0)}

ChatMessages ==
  { <<>>,
    <<" ", "\t">>,
    <<" ","d","r","i","v","e","r","s","?","\n">> }

ChatRequest ==
  \E token \in ChatTokens, m \in ChatMessages :
    Depends("/api/chat", token, m, MaxInflight)

ChatBody ==
  \E r \in Pending("/api/chat"), outcome \in DelegateOutcomes :
    chat_api(r, outcome, MaxLog)

Next == Tick \/ ChatRequest \/ ChatBody

Spec == Init /\ [][Next]_vars

---------------------------------------------------------------------------
\* The audit view: one request at a time, the delegate switched off (the
\* default of OLLAMA_ENABLED), the admin chatting, anyone asking for the log.

InitDefault == Init /\ ~OLLAMA_ENABLED

LogsTokens == {NoToken} \cup {TokenOf(u, 0) : u \in DOMAIN USERS_DB}

AdminChatRequest ==
  Depends("/api/chat", TokenOf("davidd", 0), <<"h","e","l","l","o">>, 1)

AdminChatBody ==
  \E r \in Pending("/api/chat") :
    chat_api(r, [kind |-> "transport_error", content |-> <<>>], MaxLogs)

LogsRequest ==
  \E token \in LogsTokens : Depends("/admin/logs", token, <<>>, 1)

LogsBody == \E r \in Pending("/admin/logs") : view_logs(r)

NextLogs == Tick \/ AdminChatRequest \/ AdminChatBody \/ LogsRequest \/ LogsBody

SpecLogs == InitDefault /\ [][NextLogs]_vars

---------------------------------------------------------------------------
\* Sessions: /login, /logout and the protected page /chat, over the hours.

\* a directory lookup that never compares the password
authenticate_user_known_user(username, password) ==
  IF username \notin DOMAIN USERS_DB THEN [ok |-> FALSE]
  ELSE [ok |-> TRUE, user |-> USERS_DB[username]]

authenticate_user(username, password) ==
  IF username \notin DOMAIN USERS_DB THEN [ok |-> FALSE]
  ELSE IF password # USERS_DB[username].password THEN [ok |-> FALSE]
  ELSE [ok |-> TRUE, user |-> USERS_DB[username]]

\* POST /login
login_post(username, password) ==
  LET auth == authenticate_user(username, password)
      access_token ==
        create_access_token([sub |-> auth.user.username, role |-> auth.user.role], now)
  IN
  /\ IF ~auth.ok
       THEN /\ response' = HttpResponse("/login", 401, "", NoOutcome,
                 [error |-> "Invalid username or password. Please try again."])
            /\ UNCHANGED <<issued, cookie>>
       ELSE /\ Cardinality(issued \cup {access_token}) <= MaxIssued
            /\ response' = HttpResponse("/login", 303, "", NoOutcome,
                 [location |-> "/chat", set_cookie |-> access_token])
            /\ cookie' = access_token
            /\ issued' = issued \cup {access_token}
  /\ UNCHANGED <<now, OLLAMA_ENABLED, CHAT_LOG, inflight, served, logouts, probe, running>>

\* GET /logout: the redirect tells the browser to drop the cookie
logout ==
  /\ logouts < MaxLogouts
  /\ logouts' = logouts + 1
  /\ response' = HttpResponse("/logout", 303, "", NoOutcome,
       [location |-> "/login", set_cookie |-> NoToken])
  /\ cookie' = NoToken
  /\ UNCHANGED <<now, OLLAMA_ENABLED, CHAT_LOG, inflight, served, issued, probe, running>>

\* GET /chat
chat_page(r) ==
  LET current_user == USERS_DB[r.user] IN
  /\ r \in Pending("/chat")
  /\ inflight' = Take(r)
  /\ response' = HttpResponse("/chat", 200, r.user, NoOutcome,
       [username |-> current_user.username, full_name |-> current_user.full_name,
        role |-> current_user.role])
  /\ UNCHANGED <<now, OLLAMA_ENABLED, CHAT_LOG, served, issued, cookie,
                 logouts, probe, running>>

\* the lifetime of a token passes (at most MaxHours times)
Elapse ==
  /\ now < MaxHours * TokenLifetime
  /\ now' = now + TokenLifetime
  /\ UNCHANGED <<OLLAMA_ENABLED, CHAT_LOG, inflight, response, served,
                 issued, cookie, logouts, probe, running>>

LoginNames == {"alext", "davidd", "mallory"}

LoginPasswords == {"supervisor123", "ceo123", "guess"}

Login == \E u \in LoginNames, p \in LoginPasswords : login_post(u, p)

\* the browser's cookie, a copy of any token handed out, a forged one, none
PageRequest ==
  \E token \in issued \cup {cookie, NoToken, ForgedToken} :
    Depends("/chat", token, <<>>, 1)

PageBody == \E r \in Pending("/chat") : chat_page(r)

NextSession == Tick \/ Elapse \/ Login \/ logout \/ PageRequest \/ PageBody

SpecSession == InitDefault /\ [][NextSession]_vars

---------------------------------------------------------------------------
\* chat_api statement by statement.  The coroutine never awaits, so one frame
\* at a time is on the event loop; the clock runs on while it is there (the
\* call of the delegate blocks for up to its timeout).

\* entering the coroutine: user_role, message = payload.message.strip()
chat_received(r) ==
  /\ running = Idle
  /\ r \in Pending("/api/chat")
  /\ inflight' = Take(r)
  /\ running' = [Frame("Received", r) EXCEPT !.message = strip(r.message)]
  /\ UNCHANGED <<now, OLLAMA_ENABLED, CHAT_LOG, response, served, issued,
                 cookie, logouts, probe>>

\* if not message: raise HTTPException(400); topic = detect_topic(message)
chat_classified ==
  /\ running.pc = "Received"
  /\ IF running.message = <<>>
       THEN /\ response' = HttpResponse("/api/chat", 400, running.request.user,
                 NoOutcome, [detail |-> "Message cannot be empty"])
            /\ running' = Idle
       ELSE /\ running' = [running EXCEPT !.pc = "Classified",
                                          !.topic = detect_topic(running.message)]
            /\ UNCHANGED response
  /\ UNCHANGED <<now, OLLAMA_ENABLED, CHAT_LOG, inflight, served, issued,
                 cookie, logouts, probe>>

\* a second call of the delegate when the first one failed
try_delegate_twice(frame, outcome) ==
  LET attempt == generate_ai_reply(outcome) IN
  IF attempt.raised
    THEN [frame EXCEPT !.attempts = @ + 2, !.outcome = outcome]
    ELSE [frame EXCEPT !.attempts = @ + 1, !.outcome = outcome,
                       !.ai_reply = Some(attempt.value)]

\* try: ai_reply = generate_ai_reply(...)  except Exception: print(...)
try_delegate(frame, outcome) ==
  LET attempt == generate_ai_reply(outcome) IN
  [frame EXCEPT !.attempts = @ + 1, !.outcome = outcome,
                !.ai_reply = IF attempt.raised THEN None ELSE Some(attempt.value)]

\* if ai_reply is not None: reply = ai_reply  else: the rule-based engine
choose_reply(frame) ==
  [frame EXCEPT !.pc = "Answered",
     !.reply = IF frame.ai_reply.set
                 THEN frame.ai_reply.value
                 ELSE RuleBasedReply(frame.topic, frame.message,
                                     USERS_DB[frame.request.user].role)]

chat_answered(outcome) ==
  /\ running.pc = "Classified"
  /\ running' = choose_reply(IF OLLAMA_ENABLED
                               THEN try_delegate(running, outcome)
                               ELSE running)
  /\ UNCHANGED <<now, OLLAMA_ENABLED, CHAT_LOG, inflight, response, served,
                 issued, cookie, logouts, probe>>

\* timestamp = datetime.utcnow().isoformat(); CHAT_LOG.append({...})
chat_logged ==
  LET current_user == USERS_DB[running.request.user]
      timestamp == isoformat(now)
  IN
  /\ running.pc = "Answered"
  /\ running' = [running EXCEPT !.pc = "Logged", !.timestamp = timestamp]
  /\ CHAT_LOG' = LogAppend(CHAT_LOG,
       [timestamp |-> timestamp, username |-> current_user.username,
        role |-> current_user.role, message |-> running.message,
        reply |-> running.reply, topic |-> running.topic,
        used_ai |-> running.ai_reply.set])
  /\ UNCHANGED <<now, OLLAMA_ENABLED, inflight, response, served, issued,
                 cookie, logouts, probe>>

\* return ChatResponse(reply, topic, role, timestamp)
chat_responded ==
  /\ running.pc = "Logged"
  /\ response' = HttpResponse("/api/chat", 200, running.request.user,
       running.outcome,
       [reply |-> running.reply, topic |-> running.topic,
        role |-> USERS_DB[running.request.user].role,
        timestamp |-> running.timestamp])
  /\ served' = served + 1
  /\ running' = Idle
  /\ UNCHANGED <<now, OLLAMA_ENABLED, CHAT_LOG, inflight, issued, cookie,
                 logouts, probe>>

\* requests arrive as long as the log has room for every one of them
StepsRequest ==
  /\ Len(CHAT_LOG) + BagCardinality(inflight)
       + (IF running.pc \in {"Received", "Classified", "Answered"} THEN 1 ELSE 0)
       < MaxLog
  /\ \E token \in ChatTokens, m \in ChatMessages :
       Depends("/api/chat", token, m, MaxInflight)

StepsReceived == \E r \in Pending("/api/chat") : chat_received(r)

StepsAnswered == \E outcome \in DelegateOutcomes : chat_answered(outcome)

NextSteps ==
  \/ Tick
  \/ StepsRequest
  \/ StepsReceived
  \/ chat_classified
  \/ StepsAnswered
  \/ chat_logged
  \/ chat_responded

\* every request that can be in flight
StepsRequests ==
  {Request("/api/chat", token.sub, m) :
     token \in ChatTokens \ {NoToken}, m \in ChatMessages}

\* The event loop runs its ready tasks first in, first out, so no waiting
\* request is passed over for ever; a coroutine that has started runs each
\* of its statements, and the call of the delegate returns or raises.
SpecSteps ==
  /\ Init
  /\ [][NextSteps]_vars
  /\ \A r \in StepsRequests : SF_vars(chat_received(r))
  /\ WF_vars(chat_classified)
  /\ WF_vars(StepsAnswered)
  /\ WF_vars(chat_logged)
  /\ WF_vars(chat_responded)

---------------------------------------------------------------------------
\* The login form alone: every directory user, names the directory does not
\* hold (a stranger, a known name in another case), every credential of the
\* directory and one that belongs to nobody.

FormNames == DOMAIN USERS_DB \cup {"mallory", "ALEXT"}

FormPasswords == {USERS_DB[u].password : u \in DOMAIN USERS_DB} \cup {"guess"}

LoginForm == \E u \in FormNames, p \in FormPasswords : login_post(u, p)

NextLogin == Tick \/ Elapse \/ LoginForm \/ logout

SpecLogin == InitDefault /\ [][NextLogin]_vars

InitFn == ServerInit /\ ProbeInit

NextFn == ProbeClassify \/ ProbeAnswer

SpecFn == InitFn /\ [][NextFn]_vars

---------------------------------------------------------------------------
\* Claims about the chat service (specification Spec).

IsChat(status) == response.endpoint = "/api/chat" /\ response.status = status

LastEntry == CHAT_LOG[Len(CHAT_LOG)]

\* C1: the audit log holds exactly one entry per chat request answered with
\* success, whatever the delegate did, and the entry of the request answered
\* last is the last one and carries what the response carries.
C1_OneEntryPerServedChat ==
  /\ Len(CHAT_LOG) = served
  /\ IsChat(200)
     => /\ Len(CHAT_LOG) > 0
        /\ LastEntry.username = response.caller
        /\ LastEntry.reply = response.body.reply
        /\ LastEntry.topic = response.body.topic
        /\ LastEntry.role = response.body.role
        /\ LastEntry.timestamp = response.body.timestamp

\* two requests were logged, one answered by the delegate and one by the rules
C1_Witness ==
  /\ Len(CHAT_LOG) = 2
  /\ served = 2
  /\ CHAT_LOG[1].used_ai # CHAT_LOG[2].used_ai

\* C2: the audit log is in chronological order: the timestamp text of an
\* entry never sorts after that of a later entry.
C2_LogChronological ==
  \A i \in 1..Len(CHAT_LOG), j \in 1..Len(CHAT_LOG) :
    i < j => TextLeq(CHAT_LOG[i].timestamp, CHAT_LOG[j].timestamp)

\* two entries with different timestamps, logged while a further request was
\* in flight
C2_Witness ==
  /\ Len(CHAT_LOG) = 2
  /\ CHAT_LOG[1].timestamp # CHAT_LOG[2].timestamp
  /\ BagCardinality(inflight) > 0

IsBlank(m) == \A i \in 1..Len(m) : m[i] \in WHITESPACE

\* C3: a step that runs /api/chat for an authenticated request whose message
\* is empty or all whitespace answers 400 and leaves the audit log as it
\* was: nothing appended, the delegate not called.
C3_EmptyMessageRejected ==
  [][ \A r \in Pending("/api/chat") :
        (inflight' = Take(r) /\ IsBlank(r.message))
        => /\ response'.endpoint = "/api/chat"
           /\ response'.status = 400
           /\ response'.outcome = NoOutcome
           /\ CHAT_LOG' = CHAT_LOG
           /\ served' = served ]_vars

\* a blank message was refused while the log held an entry
C3_Witness ==
  /\ IsChat(400)
  /\ Len(CHAT_LOG) > 0
  /\ \A i \in 1..Len(CHAT_LOG) : ~IsBlank(CHAT_LOG[i].message)

\* the delegate call failed: transport error or timeout, error status, or an
\* empty or missing reply content
DelegateFailed(outcome) ==
  \/ outcome.kind \in {"transport_error", "http_error", "no_content"}
  \/ outcome.kind = "body" /\ outcome.content = <<>>

\* C4: with the delegate enabled, a chat request whose delegate call failed
\* is answered 200 with the reply of the rule-based generator of the detected
\* topic for the same message and role, and is logged with used_ai false.
C4_DelegateFailureFallsBack ==
  (/\ OLLAMA_ENABLED
   /\ response.endpoint = "/api/chat"
   /\ DelegateFailed(response.outcome))
  => /\ response.status = 200
     /\ Len(CHAT_LOG) > 0
     /\ ~LastEntry.used_ai
     /\ LastEntry.reply = response.body.reply
     /\ response.body.topic = detect_topic(LastEntry.message)
     /\ response.body.reply =
          RuleBasedReply(detect_topic(LastEntry.message), LastEntry.message,
                         USERS_DB[response.caller].role)

\* the delegate returned an empty content and the rules answered
C4_Witness ==
  /\ OLLAMA_ENABLED
  /\ IsChat(200)
  /\ response.outcome = [kind |-> "body", content |-> <<>>]
  /\ response.body.reply = DISPATCH_CAPABILITY

---------------------------------------------------------------------------
\* Claims about the audit view (specification SpecLogs).

IsLogs(status) == response.endpoint = "/admin/logs" /\ response.status = status

\* C5: what /admin/logs returns to an admin is the last min(25, n) entries
\* of the n-entry log, in log order, and count is their number.
C5_Latest25 ==
  IsLogs(200)
  => LET n == Len(CHAT_LOG)
         k == IF n < 25 THEN n ELSE 25
     IN /\ response.body.count = k
        /\ Len(response.body.entries) = k
        /\ \A i \in 1..k : response.body.entries[i] = CHAT_LOG[n - k + i]

\* the log is longer than the window and the view starts past its first entry
C5_Witness ==
  /\ IsLogs(200)
  /\ Len(CHAT_LOG) > 25
  /\ response.body.count = 25
  /\ response.body.entries[1] # CHAT_LOG[1]

\* C6: /admin/logs answers a signed-in caller whose role is not admin with
\* 403 and no entry, whatever the log holds, and only a 200 of /admin/logs
\* to an admin carries log entries.
C6_LogsAdminOnly ==
  /\ (response.endpoint = "/admin/logs" /\ response.caller # ""
      /\ USERS_DB[response.caller].role # "admin")
     => /\ response.status = 403
        /\ "entries" \notin DOMAIN response.body
  /\ "entries" \in DOMAIN response.body
     => /\ IsLogs(200)
        /\ USERS_DB[response.caller].role = "admin"

\* the compliance officer was refused while the log held entries
C6_Witness ==
  /\ IsLogs(403)
  /\ response.caller = "jeremyc"
  /\ Len(CHAT_LOG) > 0

---------------------------------------------------------------------------
\* Claims about sessions (specification SpecSession).

\* the Session Extractor resolves the token to its subject's directory record
Accepted(token) ==
  LET res == get_current_user_from_request(token, now) IN
  res.ok /\ res.user = USERS_DB[token.sub]

\* the Session Extractor refuses the token with 401
Rejected(token) ==
  LET res == get_current_user_from_request(token, now) IN
  ~res.ok /\ res.status = 401

\* the tick at which the second of the token's exp claim begins
Expiry(token) == token.exp * Resolution

\* C10 as claimed: at every moment, after any logouts, a token handed out by
\* /login is accepted before its expiry and refused after it.
C10_ValidUntilExpiryExactly ==
  \A token \in issued :
    /\ now < Expiry(token) => Accepted(token)
    /\ now > Expiry(token) => Rejected(token)

\* C10 amended: at every moment, after any logouts, a token handed out by
\* /login is accepted up to the end of the second of its expiry, and refused
\* from the next second on.
C10_ValidThroughExpirySecond ==
  \A token \in issued :
    /\ Second(now) <= token.exp => Accepted(token)
    /\ Second(now) > token.exp => Rejected(token)

\* after two logouts the browser holds no cookie, and the page was served for
\* a token that is still accepted
C10_Witness ==
  /\ logouts >= 2
  /\ cookie = NoToken
  /\ response.endpoint = "/chat" /\ response.status = 200
  /\ \E token \in issued : token.sub = response.caller /\ Accepted(token)

---------------------------------------------------------------------------
\* Claims about the stages of a chat request (specification SpecSteps).

Stage == running.pc

\* the stages follow one another in the order of the state machine; a blank
\* message ends at Received with 400; a topic is there from Classified on;
\* the delegate is called only on the way to Answered; the log grows by one
\* entry on the way to Logged, and only there; the 200 answer comes after
\* the entry, and is that entry's reply
StageOrder ==
  /\ Stage' # Stage =>
       <<Stage, Stage'>> \in
         { <<"idle", "Received">>, <<"Received", "Classified">>,
           <<"Received", "idle">>, <<"Classified", "Answered">>,
           <<"Answered", "Logged">>, <<"Logged", "idle">> }
  /\ Stage' = "Classified" =>
       ~IsBlank(running'.request.message) /\ running'.topic # ""
  /\ (Stage = "Received" /\ Stage' = "idle") =>
       /\ IsBlank(running.request.message)
       /\ response'.endpoint = "/api/chat" /\ response'.status = 400
  /\ running'.attempts # running.attempts =>
       \/ Stage = "Classified" /\ Stage' = "Answered"
       \/ Stage' \in {"idle", "Received"} /\ running'.attempts = 0
  /\ CHAT_LOG' # CHAT_LOG =>
       /\ Stage = "Answered" /\ Stage' = "Logged"
       /\ Len(CHAT_LOG') = Len(CHAT_LOG) + 1
       /\ SubSeq(CHAT_LOG', 1, Len(CHAT_LOG)) = CHAT_LOG
  /\ (Stage = "Answered" /\ Stage' # Stage) => Len(CHAT_LOG') = Len(CHAT_LOG) + 1
  /\ (response'.endpoint = "/api/chat" /\ response'.status = 200
        /\ (response' # response \/ served' # served)) =>
       /\ Stage = "Logged" /\ Stage' = "idle"
       /\ CHAT_LOG'[Len(CHAT_LOG')].reply = response'.body.reply
       /\ CHAT_LOG'[Len(CHAT_LOG')].username = response'.caller
  /\ (Stage = "Logged" /\ Stage' # Stage) =>
       response'.endpoint = "/api/chat" /\ response'.status = 200

\* one call of the delegate per request at most, as many calls as the stage
\* tells when the flag is set, and none at all, nor any entry marked
\* used_ai, when it is not
DelegateOnceOrNever ==
  /\ running.attempts <= 1
  /\ OLLAMA_ENABLED =>
       running.attempts = (IF Stage \in {"Answered", "Logged"} THEN 1 ELSE 0)
  /\ ~OLLAMA_ENABLED =>
       /\ running.attempts = 0
       /\ \A i \in 1..Len(CHAT_LOG) : ~CHAT_LOG[i].used_ai

\* the request has been answered with success
Responded(r) ==
  /\ Stage = "idle"
  /\ IsChat(200)
  /\ response.caller = r.user
  /\ Len(CHAT_LOG) > 0
  /\ LastEntry.username = r.user
  /\ LastEntry.reply = response.body.reply

\* C12: every authenticated chat request with a message that is not blank
\* is answered with success in the end, whatever the call of the delegate
\* comes to; on the way it goes through Received, Classified, Answered and
\* Logged in this order; the delegate is called at most once per request
\* and never when the flag is off, and then no entry is marked used_ai.
C12_ChatRequestRunsItsStages ==
  /\ \A r \in StepsRequests :
       (~IsBlank(r.message) /\ BagIn(r, inflight)) ~> Responded(r)
  /\ [][StageOrder]_vars
  /\ []DelegateOnceOrNever

\* with the flag set a request is answered after a call of the delegate
\* that failed, and the log holds its entry, not marked used_ai
C12_Witness ==
  /\ OLLAMA_ENABLED
  /\ \E r \in StepsRequests : ~IsBlank(r.message) /\ Responded(r)
  /\ DelegateFailed(response.outcome)
  /\ ~LastEntry.used_ai

---------------------------------------------------------------------------
\* Claims about the login form (specification SpecLogin).

\* the name is in the User Directory and the password is that user's
ValidCredentials(u, p) ==
  \E entry \in {USERS_DB[k] : k \in DOMAIN USERS_DB} :
    entry.username = u /\ entry.password = p

DirectoryRole(u) == USERS_DB[u].role

InvalidCredentials ==
  HttpResponse("/login", 401, "", NoOutcome,
    [error |-> "Invalid username or password. Please try again."])

\* what a step that handles the form (u, p) must have done
LoginOutcome(u, p) ==
  IF ValidCredentials(u, p)
    THEN /\ response'.status = 303
         /\ "set_cookie" \in DOMAIN response'.body
         /\ LET token == response'.body.set_cookie
                resolved == get_current_user_from_request(token, now')
            IN /\ token.sub = u
               /\ token.role = DirectoryRole(u)
               /\ cookie' = token
               /\ issued' = issued \cup {token}
               /\ resolved.ok
               /\ resolved.user.username = u
               /\ resolved.user.role = DirectoryRole(u)
    ELSE /\ response' = InvalidCredentials
         /\ "set_cookie" \notin DOMAIN response'.body
         /\ cookie' = cookie
         /\ issued' = issued

\* C11: a login step issues a token exactly when the name is in the
\* directory and the password is that user's; the token names the user and
\* the directory's role and the session extractor resolves it at once to
\* both; every other pair gets the one 401 answer with the one message, and
\* neither the cookie nor the set of tokens handed out changes.
C11_LoginIffCredentials ==
  [][\A u \in FormNames, p \in FormPasswords :
       login_post(u, p) => LoginOutcome(u, p)]_vars

\* a directory user has signed in with their own credential, and the answer
\* on screen is the refusal of a later form that was not valid
C11_Witness ==
  /\ response = InvalidCredentials
  /\ cookie.sub = "jeremyc" /\ cookie.role = "compliance_officer"
  /\ Accepted(cookie)
  /\ issued = {cookie}

---------------------------------------------------------------------------
\* Claims about the classifier and the generators (specification SpecFn).

HasSegment(reply, text) == \E i \in 1..Len(reply) : reply[i] = text

\* the shipments whose id occurs in the message, case-insensitively
ShipmentsNamed(message) ==
  {k \in 1..Len(SHIPMENTS) : In(SHIPMENTS[k].id, upper(message))}

\* C7: whenever the shipment-tracking generator answers a message that names
\* a known shipment id, whatever the role, the reply carries that shipment's
\* status, ETA and route and every one of its exception strings.
C7_ShipmentReplyHasExceptions ==
  (/\ probe.pc = "answered"
   /\ probe.topic = "shipment_tracking"
   /\ ShipmentsNamed(probe.message) # {})
  => \E k \in ShipmentsNamed(probe.message) :
       /\ HasSegment(probe.reply, SHIPMENTS[k].status)
       /\ HasSegment(probe.reply, SHIPMENTS[k].eta)
       /\ HasSegment(probe.reply, SHIPMENTS[k].route)
       /\ \A e \in 1..Len(SHIPMENTS[k].exceptions) :
            HasSegment(probe.reply, SHIPMENTS[k].exceptions[e])

\* The classifier as C8 words it: the shipment-id prefix is the CFS- of the
\* ids CFS-####.
ClaimedTopic(message) ==
  LET msg == lower(message) IN
  IF \/ AnyIn(SubSeq(SHIPMENT_KEYWORDS, 1, Len(SHIPMENT_KEYWORDS) - 1), msg)
     \/ In(<<"c","f","s","-">>, msg)
    THEN "shipment_tracking"
  ELSE IF AnyIn(DISPATCH_KEYWORDS, msg) THEN "dispatch_coordination"
  ELSE IF AnyIn(SUPPORT_KEYWORDS, msg) THEN "employee_support"
  ELSE IF AnyIn(COMPLIANCE_KEYWORDS, msg) THEN "compliance_audit"
  ELSE IF AnyIn(CONTACT_KEYWORDS, msg) THEN "contact_directory"
  ELSE "general"

\* C8: the classifier returns shipment_tracking for every message containing
\* shipment, track, eta, delivery or the id prefix CFS- (any case), otherwise
\* the first later topic one of whose keywords occurs, and general exactly
\* when no keyword occurs.
C8_ClassifierAsClaimed ==
  probe.pc \in {"classified", "answered"}
  => probe.topic = ClaimedTopic(probe.message)

\* C9: a dispatch_coordination request answered by the rules gets the
\* access-restricted message iff the role is none of dispatcher,
\* warehouse_manager, admin; a compliance_audit request gets the restricted
\* message iff the role is neither compliance_officer nor admin; a driver
\* never gets the dispatch capability text, an admin never a restricted one.
C9_RoleGates ==
  probe.pc = "answered"
  => /\ probe.topic = "dispatch_coordination"
        => /\ (probe.reply = DISPATCH_RESTRICTED)
                <=> probe.role \notin {"dispatcher", "warehouse_manager", "admin"}
           /\ probe.reply \in {DISPATCH_RESTRICTED, DISPATCH_CAPABILITY}
     /\ probe.topic = "compliance_audit"
        => /\ (probe.reply = COMPLIANCE_RESTRICTED)
                <=> probe.role \notin {"compliance_officer", "admin"}
           /\ probe.reply \in {COMPLIANCE_RESTRICTED, COMPLIANCE_GUIDANCE}
     /\ probe.role = "driver" => probe.reply # DISPATCH_CAPABILITY
     /\ probe.role = "admin"
        => probe.reply \notin {DISPATCH_RESTRICTED, COMPLIANCE_RESTRICTED}

\* a driver asked about dispatch and was refused
C9_Witness ==
  /\ probe.pc = "answered"
  /\ probe.topic = "dispatch_coordination"
  /\ probe.role = "driver"
  /\ probe.reply = DISPATCH_RESTRICTED

=============================================================================
